---- MODULE Spec2Model ----
(***************************************************************************)
(* monoio-rustls, src/safe_io.rs: SafeRead and SafeWrite, the two adapters *)
(* that let a synchronous io::Read / io::Write consumer (the TLS engine)   *)
(* be driven by a completion-based transport.                              *)
(*                                                                         *)
(* Byte strings.  The adapters never inspect a byte; they only move bytes. *)
(* Every byte is therefore labelled with its position in the stream it     *)
(* comes from (the transport's inbound stream, the engine's outbound       *)
(* stream), and a byte string is kept as the sequence of its maximal runs  *)
(* of consecutive labels, [lo |-> a, hi |-> b].  <<[lo |-> 1, hi |-> 100]>>*)
(* is the 100 bytes 1..100; a lost, duplicated or reordered byte shows as  *)
(* a different sequence of runs.                                           *)
(***************************************************************************)
EXTENDS Integers, Sequences, FiniteSets

\* const BUFFER_SIZE: usize = 16 * 1024;
BUFFER_SIZE == 16 * 1024

\* ---- bounds of the model -------------------------------------------------
\* transport calls (read or write_all) issued over one run
MaxCalls == 3

\* ---- inputs ---------------------------------------------------------------
\* byte counts a completed transport read may report (0 is Eof, below)
ReadLens == {1, 100}
\* lengths of the dest slice handed to read()
DestLens == {0, 50, 100}
\* lengths of the src slice handed to write()
SrcLens == {0, 4096, 16383, 20 * 1024}
\* kinds of io::Error the transport may fail with
ErrKinds == {"ConnectionReset", "WouldBlock"}

\* ---- byte strings ---------------------------------------------------------
Min(a, b) == IF a <= b THEN a ELSE b

\* n bytes of a stream, starting after position base
Bytes(base, n) == IF n = 0 THEN <<>> ELSE <<[lo |-> base + 1, hi |-> base + n]>>

RECURSIVE BLen(_)
\* BytesMut::len
BLen(b) == IF b = <<>> THEN 0 ELSE (b[1].hi - b[1].lo + 1) + BLen(Tail(b))

\* BytesMut::is_empty
IsEmpty(b) == BLen(b) = 0

RECURSIVE BTake(_, _)
\* the first n bytes of b (n <= BLen(b))
BTake(b, n) ==
    IF n = 0 \/ b = <<>> THEN <<>>
    ELSE LET r == b[1]
             l == r.hi - r.lo + 1
         IN  IF n < l THEN <<[lo |-> r.lo, hi |-> r.lo + n - 1]>>
             ELSE <<r>> \o BTake(Tail(b), n - l)

RECURSIVE BDrop(_, _)
\* b without its first n bytes (n <= BLen(b))
BDrop(b, n) ==
    IF n = 0 \/ b = <<>> THEN b
    ELSE LET r == b[1]
             l == r.hi - r.lo + 1
         IN  IF n < l THEN <<[lo |-> r.lo + n, hi |-> r.hi]>> \o Tail(b)
             ELSE BDrop(Tail(b), n - l)

\* a followed by b, runs that continue each other joined
BCat(a, b) ==
    IF a = <<>> THEN b
    ELSE IF b = <<>> THEN a
    ELSE IF a[Len(a)].hi + 1 = b[1].lo
         THEN SubSeq(a, 1, Len(a) - 1)
              \o <<[lo |-> a[Len(a)].lo, hi |-> b[1].hi]>>
              \o Tail(b)
         ELSE a \o b

\* ---- Option<BytesMut>, statuses, io::Result --------------------------------
None == <<>>
Some(b) == <<b>>
IsSome(o) == o # None
Unwrap(o) == o[1]

\* ReadStatus / WriteStatus
StOk == [tag |-> "Ok"]
StEof == [tag |-> "Eof"]
StErr(e) == [tag |-> "Err", e |-> e]

\* an io::Error: its kind, and which transport failure it is (id 0: an error
\* made from a kind alone, ErrorKind::into())
IoError(kind, id) == [kind |-> kind, id |-> id]
\* io::ErrorKind::WouldBlock.into()
WouldBlock == IoError("WouldBlock", 0)
\* slip: the error handed to the asynchronous caller loses the kind
KindLost(e) == IoError("Other", 0)
\* e.kind().into()
KindOnly(e) == IoError(e.kind, 0)

\* what a call gave back to its caller
RetOk(op, n, data) == [op |-> op, tag |-> "Ok", n |-> n, data |-> data]
RetErr(op, e) == [op |-> op, tag |-> "Err", e |-> e]
RetPanic(op) == [op |-> op, tag |-> "Panic"]
RetNone == [op |-> "none", tag |-> "None"]

VARIABLES
    rbuffer,    \* SafeRead.buffer: Option<BytesMut>
    rstatus,    \* SafeRead.status
    rio,        \* the buffer a suspended SafeRead::do_io has moved into io.read
    rret,       \* result of the last call on the SafeRead
    wbuffer,    \* SafeWrite.buffer: Option<BytesMut>
    wstatus,    \* SafeWrite.status
    wio,        \* the buffer a suspended SafeWrite::do_io has moved into io.write_all
    wret,       \* result of the last call on the SafeWrite
    \* history
    rfilled,    \* all bytes the transport delivered to SafeRead::do_io, in order
    rcopied,    \* all bytes read() copied into its dest slices, in order
    rsurfaced,  \* ids of the transport errors read() returned, in order
    rdropped,   \* a suspended SafeRead::do_io was dropped
    wtaken,     \* number of bytes write() has accepted
    wsurfaced,  \* ids of the transport errors write()/flush() returned, in order
    wdropped,   \* a suspended SafeWrite::do_io was dropped
    waccepted,  \* all bytes write() copied out of its src slices, in order
    wsent,      \* all bytes of the io.write_all calls that returned Ok, in order
    wfailed,    \* the buffer of the last io.write_all that returned Err, if none succeeded since
    ncalls,     \* transport calls issued
    nerrs       \* transport calls that failed

rvars == <<rbuffer, rstatus, rio, rret, rfilled, rcopied, rsurfaced, rdropped>>
wvars == <<wbuffer, wstatus, wio, wret, wtaken, wsurfaced, wdropped,
          waccepted, wsent, wfailed>>
vars == <<rbuffer, rstatus, rio, rret, wbuffer, wstatus, wio, wret,
          rfilled, rcopied, rsurfaced, rdropped,
          wtaken, wsurfaced, wdropped, waccepted, wsent, wfailed, ncalls, nerrs>>

\* SafeRead::default, SafeWrite::default
Init ==
    /\ rbuffer = Some(<<>>)
    /\ rstatus = StOk
    /\ rio = None
    /\ rret = RetNone
    /\ wbuffer = Some(<<>>)
    /\ wstatus = StOk
    /\ wio = None
    /\ wret = RetNone
    /\ rfilled = <<>>
    /\ rcopied = <<>>
    /\ rsurfaced = <<>>
    /\ rdropped = FALSE
    /\ wtaken = 0
    /\ wsurfaced = <<>>
    /\ wdropped = FALSE
    /\ waccepted = <<>>
    /\ wsent = <<>>
    /\ wfailed = None
    /\ ncalls = 0
    /\ nerrs = 0

\* ======================= SafeRead ==========================================
\* No call on the adapter can start while a do_io future holds &mut self.
RIdle == rio = None

\* do_io, `expect("buffer ref expected")` fails: the slot is empty
FillPanic ==
    /\ RIdle
    /\ ~IsSome(rbuffer)
    /\ rret' = RetPanic("fill")
    /\ UNCHANGED <<rbuffer, rstatus, rio, rfilled, rcopied, rsurfaced, rdropped>>
    /\ UNCHANGED <<wvars, ncalls, nerrs>>

\* do_io, lines 32-35: data is buffered, return its length
FillBuffered ==
    /\ RIdle
    /\ IsSome(rbuffer)
    /\ ~IsEmpty(Unwrap(rbuffer))
    /\ rret' = RetOk("fill", BLen(Unwrap(rbuffer)), <<>>)
    /\ UNCHANGED <<rbuffer, rstatus, rio, rfilled, rcopied, rsurfaced, rdropped>>
    /\ UNCHANGED <<wvars, ncalls, nerrs>>

\* slip: io.read is issued without looking at the buffered bytes
FillStartAnyway ==
    /\ RIdle
    /\ IsSome(rbuffer)
    /\ ncalls < MaxCalls
    /\ rio' = Some(Unwrap(rbuffer))
    /\ rbuffer' = None
    /\ ncalls' = ncalls + 1
    /\ UNCHANGED <<rstatus, rret, rfilled, rcopied, rsurfaced, rdropped>>
    /\ UNCHANGED <<wvars, nerrs>>

\* do_io, lines 38-40: take the buffer, hand it to io.read and suspend
FillStart ==
    /\ RIdle
    /\ IsSome(rbuffer)
    /\ IsEmpty(Unwrap(rbuffer))
    /\ ncalls < MaxCalls
    /\ rio' = Some(Unwrap(rbuffer))
    /\ rbuffer' = None
    /\ ncalls' = ncalls + 1
    /\ UNCHANGED <<rstatus, rret, rfilled, rcopied, rsurfaced, rdropped>>
    /\ UNCHANGED <<wvars, nerrs>>

\* slip: a transport read of zero bytes is stored like any other success
FillStatusNoEof(n) == StOk

\* slip: the two Ok arms are swapped
FillStatusSwapped(n) == IF n = 0 THEN StOk ELSE StEof

\* the status do_io stores for a transport read of n bytes (lines 43-50)
FillStatus(n) == IF n = 0 THEN StEof ELSE StOk

\* slip: the positive arm returns without assigning the status
FillOkStale(n) ==
    /\ IsSome(rio)
    /\ LET got == Bytes(BLen(rfilled), n)
       IN  /\ rbuffer' = Some(BCat(Unwrap(rio), got))
           /\ rfilled' = BCat(rfilled, got)
    /\ rio' = None
    /\ rstatus' = IF n = 0 THEN StEof ELSE rstatus
    /\ rret' = RetOk("fill", n, <<>>)
    /\ UNCHANGED <<rcopied, rsurfaced, rdropped>>
    /\ UNCHANGED <<wvars, ncalls, nerrs>>

\* do_io, lines 40-50: io.read completes with Ok(n); n = 0 is end of stream
FillOk(n) ==
    /\ IsSome(rio)
    /\ LET got == Bytes(BLen(rfilled), n)
       IN  /\ rbuffer' = Some(BCat(Unwrap(rio), got))
           /\ rfilled' = BCat(rfilled, got)
    /\ rio' = None
    /\ rstatus' = FillStatus(n)
    /\ rret' = RetOk("fill", n, <<>>)
    /\ UNCHANGED <<rcopied, rsurfaced, rdropped>>
    /\ UNCHANGED <<wvars, ncalls, nerrs>>

\* slip: the error path returns before the buffer is put back
FillErrLost(kind) ==
    /\ IsSome(rio)
    /\ LET e == IoError(kind, nerrs + 1)
       IN  /\ rstatus' = StErr(e)
           /\ rret' = RetErr("fill", KindOnly(e))
    /\ rbuffer' = None
    /\ rio' = None
    /\ nerrs' = nerrs + 1
    /\ UNCHANGED <<rfilled, rcopied, rsurfaced, rdropped>>
    /\ UNCHANGED <<wvars, ncalls>>

\* do_io, lines 40-41, 51-55: io.read completes with Err(e)
FillErr(kind) ==
    /\ IsSome(rio)
    /\ LET e == IoError(kind, nerrs + 1)
       IN  /\ rstatus' = StErr(e)
           /\ rret' = RetErr("fill", KindOnly(e))
    /\ rbuffer' = Some(Unwrap(rio))
    /\ rio' = None
    /\ nerrs' = nerrs + 1
    /\ UNCHANGED <<rfilled, rcopied, rsurfaced, rdropped>>
    /\ UNCHANGED <<wvars, ncalls>>

\* slip: as if dropping the future handed the buffer back to the slot
FillDropRestores ==
    /\ IsSome(rio)
    /\ rbuffer' = Some(Unwrap(rio))
    /\ rio' = None
    /\ rdropped' = TRUE
    /\ UNCHANGED <<rstatus, rret, rfilled, rcopied, rsurfaced>>
    /\ UNCHANGED <<wvars, ncalls, nerrs>>

\* the driver drops the suspended do_io future: the buffer goes with it
FillDrop ==
    /\ IsSome(rio)
    /\ rio' = None
    /\ rdropped' = TRUE
    /\ UNCHANGED <<rbuffer, rstatus, rret, rfilled, rcopied, rsurfaced>>
    /\ UNCHANGED <<wvars, ncalls, nerrs>>

\* read, `expect("buffer mut expected")` fails
ReadPanic ==
    /\ RIdle
    /\ ~IsSome(rbuffer)
    /\ rret' = RetPanic("read")
    /\ UNCHANGED <<rbuffer, rstatus, rio, rfilled, rcopied, rsurfaced, rdropped>>
    /\ UNCHANGED <<wvars, ncalls, nerrs>>

\* slip: the status is read but not replaced
ReadStatusKept(st) == st

\* std::mem::replace(&mut self.status, ReadStatus::Ok): the status left behind
ReadStatusTaken(st) == StOk

\* slip: an empty buffer with nothing pending reads as end of stream
ReadEmptyRetZero(st) ==
    IF st = StEof \/ st = StOk THEN RetOk("read", 0, <<>>)
    ELSE RetErr("read", st.e)

\* read, lines 65-72: what read() returns on an empty buffer, by status
ReadEmptyRet(st) ==
    IF st = StEof THEN RetOk("read", 0, <<>>)
    ELSE IF st # StOk THEN RetErr("read", st.e)
    ELSE RetErr("read", WouldBlock)

\* read, lines 64-73: the buffer is empty
ReadEmpty ==
    /\ RIdle
    /\ IsSome(rbuffer)
    /\ IsEmpty(Unwrap(rbuffer))
    /\ rret' = ReadEmptyRet(rstatus)
    /\ IF rstatus # StOk
       THEN /\ rstatus' = ReadStatusTaken(rstatus)
            /\ rsurfaced' = IF rstatus = StEof THEN rsurfaced
                            ELSE Append(rsurfaced, rstatus.e.id)
       ELSE UNCHANGED <<rstatus, rsurfaced>>
    /\ UNCHANGED <<rbuffer, rio, rfilled, rcopied, rdropped>>
    /\ UNCHANGED <<wvars, ncalls, nerrs>>

\* read, line 76
ReadToCopy(buflen, destlen) == Min(buflen, destlen)

\* slip: the cursor stops one byte short
AdvanceShort(b, n) == IF n = 0 THEN b ELSE BDrop(b, n - 1)

\* slip: the consumed cursor is not moved
AdvanceNone(b, n) == b

\* Buf::advance (lines 78, 118)
Advance(b, n) == BDrop(b, n)

\* read, lines 75-80: copy the head of the buffer into dest
ReadData(destlen) ==
    /\ RIdle
    /\ IsSome(rbuffer)
    /\ ~IsEmpty(Unwrap(rbuffer))
    /\ LET buffer == Unwrap(rbuffer)
           to_copy == ReadToCopy(BLen(buffer), destlen)
           dest == BTake(buffer, to_copy)
       IN  /\ rbuffer' = Some(Advance(buffer, to_copy))
           /\ rret' = RetOk("read", to_copy, dest)
           /\ rcopied' = BCat(rcopied, dest)
    /\ UNCHANGED <<rstatus, rio, rfilled, rsurfaced, rdropped>>
    /\ UNCHANGED <<wvars, ncalls, nerrs>>

\* any call of io::Read::read
Read == ReadPanic \/ ReadEmpty \/ \E d \in DestLens : ReadData(d)

\* a transport read completing
FillComplete == (\E n \in ReadLens \cup {0} : FillOk(n)) \/ (\E k \in ErrKinds : FillErr(k))

\* any call of SafeRead::do_io, up to its return or its suspension in io.read
Fill == FillPanic \/ FillBuffered \/ FillStart

RNext == Fill \/ FillComplete \/ FillDrop \/ Read

\* ======================= SafeWrite =========================================
WIdle == wio = None

\* do_io, `expect("buffer ref expected")` fails: the slot is empty
DrainPanic ==
    /\ WIdle
    /\ ~IsSome(wbuffer)
    /\ wret' = RetPanic("drain")
    /\ UNCHANGED <<wbuffer, wstatus, wio, wtaken, wsurfaced, wdropped, waccepted, wsent, wfailed>>
    /\ UNCHANGED <<rvars, ncalls, nerrs>>

\* slip: the early return clears the status
DrainEmptyClears ==
    /\ WIdle
    /\ IsSome(wbuffer)
    /\ IsEmpty(Unwrap(wbuffer))
    /\ wret' = RetOk("drain", 0, <<>>)
    /\ wstatus' = StOk
    /\ UNCHANGED <<wbuffer, wio, wtaken, wsurfaced, wdropped, waccepted, wsent, wfailed>>
    /\ UNCHANGED <<rvars, ncalls, nerrs>>

\* do_io, lines 107-110: nothing to write
DrainEmpty ==
    /\ WIdle
    /\ IsSome(wbuffer)
    /\ IsEmpty(Unwrap(wbuffer))
    /\ wret' = RetOk("drain", 0, <<>>)
    /\ UNCHANGED <<wbuffer, wstatus, wio, wtaken, wsurfaced, wdropped, waccepted, wsent, wfailed>>
    /\ UNCHANGED <<rvars, ncalls, nerrs>>

\* do_io, lines 113-114: take the buffer, hand it to io.write_all and suspend
DrainStart ==
    /\ WIdle
    /\ IsSome(wbuffer)
    /\ ~IsEmpty(Unwrap(wbuffer))
    /\ ncalls < MaxCalls
    /\ wio' = Some(Unwrap(wbuffer))
    /\ wbuffer' = None
    /\ ncalls' = ncalls + 1
    /\ UNCHANGED <<wstatus, wret, wtaken, wsurfaced, wdropped, waccepted, wsent, wfailed>>
    /\ UNCHANGED <<rvars, nerrs>>

\* slip: success stores Ok in the status, as the read side does
DrainOkResets ==
    /\ IsSome(wio)
    /\ LET written_len == BLen(Unwrap(wio))
       IN  /\ wbuffer' = Some(BDrop(Unwrap(wio), written_len))
           /\ wret' = RetOk("drain", written_len, <<>>)
    /\ wsent' = BCat(wsent, Unwrap(wio))
    /\ wfailed' = None
    /\ wio' = None
    /\ wstatus' = StOk
    /\ UNCHANGED <<wtaken, wsurfaced, wdropped, waccepted>>
    /\ UNCHANGED <<rvars, ncalls, nerrs>>

\* do_io, lines 114-120: io.write_all completes with Ok(written_len), all of
\* the buffer written
DrainOk ==
    /\ IsSome(wio)
    /\ LET written_len == BLen(Unwrap(wio))
       IN  /\ wbuffer' = Some(Advance(Unwrap(wio), written_len))
           /\ wret' = RetOk("drain", written_len, <<>>)
           /\ wsent' = BCat(wsent, BTake(Unwrap(wio), written_len))
    /\ wfailed' = None
    /\ wio' = None
    /\ UNCHANGED <<wstatus, wtaken, wsurfaced, wdropped, waccepted>>
    /\ UNCHANGED <<rvars, ncalls, nerrs>>

\* slip: the failed buffer is treated as written
DrainErrDiscards(kind) ==
    /\ IsSome(wio)
    /\ LET e == IoError(kind, nerrs + 1)
       IN  /\ wstatus' = StErr(e)
           /\ wret' = RetErr("drain", KindOnly(e))
    /\ wbuffer' = Some(BDrop(Unwrap(wio), BLen(Unwrap(wio))))
    /\ wio' = None
    /\ wfailed' = Some(Unwrap(wio))
    /\ nerrs' = nerrs + 1
    /\ UNCHANGED <<wtaken, wsurfaced, wdropped, waccepted, wsent>>
    /\ UNCHANGED <<rvars, ncalls>>

\* do_io, lines 114-115, 121-125: io.write_all completes with Err(e)
DrainErr(kind) ==
    /\ IsSome(wio)
    /\ LET e == IoError(kind, nerrs + 1)
       IN  /\ wstatus' = StErr(e)
           /\ wret' = RetErr("drain", KindOnly(e))
    /\ wbuffer' = Some(Unwrap(wio))
    /\ wio' = None
    /\ wfailed' = Some(Unwrap(wio))
    /\ nerrs' = nerrs + 1
    /\ UNCHANGED <<wtaken, wsurfaced, wdropped, waccepted, wsent>>
    /\ UNCHANGED <<rvars, ncalls>>

\* the driver drops the suspended do_io future: the buffer goes with it
DrainDrop ==
    /\ IsSome(wio)
    /\ wio' = None
    /\ wdropped' = TRUE
    /\ UNCHANGED <<wbuffer, wstatus, wret, wtaken, wsurfaced, waccepted, wsent, wfailed>>
    /\ UNCHANGED <<rvars, ncalls, nerrs>>

\* write / flush, `expect("buffer mut expected")` fails
WritePanic(op) ==
    /\ WIdle
    /\ ~IsSome(wbuffer)
    /\ wret' = RetPanic(op)
    /\ UNCHANGED <<wbuffer, wstatus, wio, wtaken, wsurfaced, wdropped, waccepted, wsent, wfailed>>
    /\ UNCHANGED <<rvars, ncalls, nerrs>>

\* std::mem::replace(&mut self.status, WriteStatus::Ok): the status left behind
WriteStatusTaken(st) == StOk

\* write / flush, lines 134-139 and 161-166: a pending error is returned
WriteTakeErr(op) ==
    /\ WIdle
    /\ IsSome(wbuffer)
    /\ wstatus # StOk
    /\ wret' = RetErr(op, wstatus.e)
    /\ wsurfaced' = Append(wsurfaced, wstatus.e.id)
    /\ wstatus' = WriteStatusTaken(wstatus)
    /\ UNCHANGED <<wbuffer, wio, wtaken, wdropped, waccepted, wsent, wfailed>>
    /\ UNCHANGED <<rvars, ncalls, nerrs>>

\* write, line 140
IsFull(buflen) == buflen >= BUFFER_SIZE

\* write, lines 140-142: no space
WriteFull ==
    /\ WIdle
    /\ IsSome(wbuffer)
    /\ wstatus = StOk
    /\ IsFull(BLen(Unwrap(wbuffer)))
    /\ wret' = RetErr("write", WouldBlock)
    /\ UNCHANGED <<wbuffer, wstatus, wio, wtaken, wsurfaced, wdropped, waccepted, wsent, wfailed>>
    /\ UNCHANGED <<rvars, ncalls, nerrs>>

\* slip: off by one
SpaceLeftShort(buflen) == BUFFER_SIZE - buflen - 1

\* write, line 145
SpaceLeft(buflen) == BUFFER_SIZE - buflen

\* slip: the copy is not capped to the space left
WriteToCopyAll(srclen, space_left) == srclen

\* write, line 147
WriteToCopy(srclen, space_left) == Min(srclen, space_left)

\* write, lines 144-156: copy the head of src behind the buffered bytes.
\* src is the next srclen bytes of the engine's outbound stream.
WriteData(srclen) ==
    /\ WIdle
    /\ IsSome(wbuffer)
    /\ wstatus = StOk
    /\ ~IsFull(BLen(Unwrap(wbuffer)))
    /\ LET buffer == Unwrap(wbuffer)
           src == Bytes(wtaken, srclen)
           space_left == SpaceLeft(BLen(buffer))
           to_copy == WriteToCopy(srclen, space_left)
       IN  /\ wbuffer' = Some(BCat(buffer, BTake(src, to_copy)))
           /\ wret' = RetOk("write", to_copy, BTake(src, to_copy))
           /\ wtaken' = wtaken + to_copy
           /\ waccepted' = BCat(waccepted, BTake(src, to_copy))
    /\ UNCHANGED <<wstatus, wio, wsurfaced, wdropped, wsent, wfailed>>
    /\ UNCHANGED <<rvars, ncalls, nerrs>>

\* slip: flush succeeds with bytes still unsent
FlushRetOk(buffer) == RetOk("flush", 0, <<>>)

\* flush, lines 167-170
FlushRet(buffer) ==
    IF ~IsEmpty(buffer) THEN RetErr("flush", WouldBlock) ELSE RetOk("flush", 0, <<>>)

\* flush, lines 167-170: no pending error
FlushCheck ==
    /\ WIdle
    /\ IsSome(wbuffer)
    /\ wstatus = StOk
    /\ wret' = FlushRet(Unwrap(wbuffer))
    /\ UNCHANGED <<wbuffer, wstatus, wio, wtaken, wsurfaced, wdropped, waccepted, wsent, wfailed>>
    /\ UNCHANGED <<rvars, ncalls, nerrs>>

\* slip: the length is tested before the status
WriteFullFirst ==
    \/ WritePanic("write")
    \/ /\ IsSome(wbuffer)
       /\ ~IsFull(BLen(Unwrap(wbuffer)))
       /\ WriteTakeErr("write")
    \/ /\ WIdle
       /\ IsSome(wbuffer)
       /\ IsFull(BLen(Unwrap(wbuffer)))
       /\ wret' = RetErr("write", WouldBlock)
       /\ UNCHANGED <<wbuffer, wstatus, wio, wtaken, wsurfaced, wdropped, waccepted, wsent, wfailed>>
       /\ UNCHANGED <<rvars, ncalls, nerrs>>
    \/ \E s \in SrcLens : WriteData(s)

\* any call of io::Write::write
Write == WritePanic("write") \/ WriteTakeErr("write") \/ WriteFull
         \/ \E s \in SrcLens : WriteData(s)

\* any call of io::Write::flush
Flush == WritePanic("flush") \/ WriteTakeErr("flush") \/ FlushCheck

\* a transport write_all completing
DrainComplete == DrainOk \/ \E k \in ErrKinds : DrainErr(k)

\* any call of SafeWrite::do_io, up to its return or its suspension in
\* io.write_all
Drain == DrainPanic \/ DrainEmpty \/ DrainStart

WNext == Drain \/ DrainComplete \/ DrainDrop \/ Write \/ Flush

Next == RNext \/ WNext

Spec == Init /\ [][Next]_vars

\* ======================= properties ========================================
\* a is a leading part of b
IsPrefix(a, b) == BLen(a) <= BLen(b) /\ BTake(b, BLen(a)) = a

NoDup(s) == \A i, j \in 1..Len(s) : i # j => s[i] # s[j]

\* the bytes delivered by the transport and not yet copied out by read():
\* in the slot, or in the buffer a suspended do_io has lent to io.read
RStaged == IF IsSome(rbuffer) THEN Unwrap(rbuffer)
           ELSE IF IsSome(rio) THEN Unwrap(rio) ELSE <<>>

REmpty == IsSome(rbuffer) /\ IsEmpty(Unwrap(rbuffer))

\* C1. Read-side FIFO: at every point the bytes the successful reads returned,
\* concatenated, are a leading part of the bytes the transport delivered to
\* fill(), followed exactly by the staged bytes (nothing lost, duplicated or
\* reordered); with the staging buffer empty the two are equal.
C1_ReadFifo ==
    /\ IsPrefix(rcopied, rfilled)
    /\ BCat(rcopied, RStaged) = rfilled
    /\ (IsEmpty(RStaged) => rcopied = rfilled)

\* fill() got 100 bytes, read(dest[50]) returned the first 50 and the next read
\* returned the other 50, leaving the buffer empty
C1_Witness ==
    /\ rfilled = Bytes(0, 100)
    /\ rcopied = Bytes(0, 100)
    /\ rret = RetOk("read", 50, Bytes(50, 50))
    /\ REmpty

\* C2. read() on an empty staging buffer with status Ok returns would-block
\* (not zero-length success), issues no transport call, does not suspend, and
\* leaves buffer and status as they were.
C2_EmptyReadWouldBlock ==
    [][(Read /\ REmpty /\ rstatus = StOk)
        => /\ rret' = RetErr("read", WouldBlock)
           /\ UNCHANGED <<rbuffer, rstatus, rio, ncalls, rfilled, rcopied>>]_vars

C2_Witness ==
    /\ rret = RetErr("read", WouldBlock)
    /\ REmpty
    /\ rstatus = StOk
    /\ rio = None

\* C3. Eof is delivered once and is not sticky: the read() that follows a
\* fill() that observed zero bytes returns zero-length success and resets the
\* status to Ok; the read() after that one, and every read() on the empty
\* buffer until another fill() completes, returns would-block.
C3_EofOnce ==
    /\ [][(Read /\ rret = RetOk("fill", 0, <<>>) /\ IsSome(rbuffer))
           => /\ rret' = RetOk("read", 0, <<>>)
              /\ rstatus' = StOk
              /\ REmpty']_vars
    /\ [][(Read /\ REmpty /\ rret.op = "read" /\ rret.tag \in {"Ok", "Err"})
           => /\ rret' = RetErr("read", WouldBlock)
              /\ rstatus' = StOk
              /\ REmpty']_vars
    /\ []((REmpty /\ rret.op = "read") => rstatus = StOk)

\* the Eof has been read and the read after it returned would-block
C3_Witness ==
    /\ rret = RetErr("read", WouldBlock)
    /\ REmpty
    /\ rfilled = <<>>
    /\ ncalls = 1
    /\ nerrs = 0
    /\ wret = RetNone

WSome == IsSome(wbuffer)
WLen == BLen(Unwrap(wbuffer))

C6_WriteBounded ==
    /\ [](/\ WSome => WLen <= BUFFER_SIZE
          /\ IsSome(wio) => BLen(Unwrap(wio)) <= BUFFER_SIZE)
    /\ [][(Write /\ WSome /\ wstatus = StOk /\ WLen >= BUFFER_SIZE)
           => /\ wret' = RetErr("write", WouldBlock)
              /\ UNCHANGED <<wbuffer, wstatus, wtaken>>]_vars

\* write() was refused on a full buffer
C6_Witness ==
    /\ WSome
    /\ WLen = BUFFER_SIZE
    /\ wret = RetErr("write", WouldBlock)
    /\ wstatus = StOk

\* C7. flush() succeeds exactly if the buffer is empty and the status is Ok;
\* with an error pending it returns that error (buffer empty or not);
\* otherwise, with unsent bytes, it returns would-block.  It never changes the
\* buffer.
C7_Flush ==
    [][(Flush /\ WSome)
        => /\ wret'.op = "flush"
           /\ wret'.tag = "Ok" <=> (IsEmpty(Unwrap(wbuffer)) /\ wstatus = StOk)
           /\ wstatus.tag = "Err" => wret' = RetErr("flush", wstatus.e)
           /\ (wstatus = StOk /\ ~IsEmpty(Unwrap(wbuffer)))
                => wret' = RetErr("flush", WouldBlock)
           /\ UNCHANGED <<wbuffer, wio, wtaken>>]_vars

\* flush() returned a pending transport error although the buffer was empty
C7_Witness ==
    /\ wret.op = "flush"
    /\ wret.tag = "Err"
    /\ wret.e.id > 0
    /\ WSome
    /\ IsEmpty(Unwrap(wbuffer))

\* C8. Short write: write(src) with no pending error and fewer than
\* BUFFER_SIZE buffered bytes returns min(src_len, BUFFER_SIZE - buffer_len)
\* and appends exactly that leading part of src; 20 KiB into an empty buffer
\* gives 16384, and 4 KiB into a buffer emptied by drain() gives 4096.
C8_ShortWrite ==
    [][\A s \in SrcLens :
        (WriteData(s) /\ WSome /\ wstatus = StOk /\ WLen < BUFFER_SIZE)
        => LET n == IF s <= BUFFER_SIZE - WLen THEN s ELSE BUFFER_SIZE - WLen
               src == Bytes(wtaken, s)
           IN  /\ wret'.op = "write" /\ wret'.tag = "Ok"
               /\ wret'.n = n
               /\ wret'.data = BTake(src, n)
               /\ IsSome(wbuffer')
               /\ BLen(Unwrap(wbuffer')) = WLen + n
               /\ BTake(Unwrap(wbuffer'), WLen) = Unwrap(wbuffer)
               /\ BDrop(Unwrap(wbuffer'), WLen) = BTake(src, n)
               /\ (s = 20 * 1024 /\ WLen = 0) => wret'.n = 16384
               /\ (s = 4096 /\ WLen = 0) => wret'.n = 4096]_vars

\* 16384 of 20 KiB were accepted, drain() emptied the buffer, and the write of
\* the remaining 4 KiB returned 4096
C8_Witness ==
    /\ wret = RetOk("write", 4096, Bytes(16384, 4096))
    /\ wbuffer = Some(Bytes(16384, 4096))
    /\ wtaken = 20 * 1024
    /\ nerrs = 0

\* C9. A pending write error wins in write(): with status Err(E), write(src)
\* returns E, resets the status to Ok and copies nothing, whether the buffer
\* has free space or is full; the unsent bytes stay as they are.
C9_WriteErrFirst ==
    [][(Write /\ WSome /\ wstatus.tag = "Err")
        => /\ wret' = RetErr("write", wstatus.e)
           /\ wstatus' = StOk
           /\ UNCHANGED <<wbuffer, wio, wtaken>>]_vars

\* write() on a full buffer returned the pending transport error
C9_Witness ==
    /\ wret.op = "write"
    /\ wret.tag = "Err"
    /\ wret.e.id > 0
    /\ WSome
    /\ WLen = BUFFER_SIZE
    /\ wstatus = StOk

\* C10. While no suspended fill() / drain() has been dropped, the buffer slot
\* is empty exactly while a fill() / drain() is suspended in its transport
\* call, so every call finds the slot populated and none fails on the
\* `expect`.
C10_SlotPopulated ==
    /\ ~rdropped => /\ IsSome(rbuffer) <=> rio = None
                    /\ rret.tag # "Panic"
    /\ ~wdropped => /\ IsSome(wbuffer) <=> wio = None
                    /\ wret.tag # "Panic"

\* a fill() and a drain() have both failed and both slots hold their buffer
C10_Witness ==
    /\ rret.op = "fill" /\ rret.tag = "Err"
    /\ wret.op = "drain" /\ wret.tag = "Err"
    /\ IsSome(rbuffer) /\ IsSome(wbuffer)
    /\ ~rdropped /\ ~wdropped

\* C11. Dual delivery, kind kept: when the transport call inside fill() or
\* drain() fails with E, the call returns to its asynchronous caller an error
\* of E's kind and in the same step stores E itself in the status cell; the
\* error the synchronous side returns next has the kind the asynchronous
\* caller saw.
C11_DualDelivery ==
    /\ [][\A k \in ErrKinds :
            /\ FillErr(k) => /\ rret'.op = "fill" /\ rret'.tag = "Err"
                             /\ rret'.e.kind = k
                             /\ rstatus'.tag = "Err"
                             /\ rstatus'.e.kind = k
                             /\ rstatus'.e.id = nerrs' /\ nerrs' = nerrs + 1
            /\ DrainErr(k) => /\ wret'.op = "drain" /\ wret'.tag = "Err"
                              /\ wret'.e.kind = k
                              /\ wstatus'.tag = "Err"
                              /\ wstatus'.e.kind = k
                              /\ wstatus'.e.id = nerrs' /\ nerrs' = nerrs + 1]_vars
    /\ [][(Read /\ rret.op = "fill" /\ rret.tag = "Err" /\ IsSome(rbuffer))
           => (rret'.tag = "Err" /\ rret'.e.kind = rret.e.kind)]_vars
    /\ [][((Write \/ Flush) /\ wret.op = "drain" /\ wret.tag = "Err" /\ WSome)
           => (wret'.tag = "Err" /\ wret'.e.kind = wret.e.kind)]_vars

\* fill() failed with a connection reset: its caller got that kind and the
\* transport's error is pending
C11_Witness ==
    /\ rret = RetErr("fill", IoError("ConnectionReset", 0))
    /\ rstatus = StErr(IoError("ConnectionReset", 1))
    /\ wret.op = "drain" /\ wret.tag = "Err" /\ wret.e.kind = "WouldBlock"
    /\ wstatus.tag = "Err" /\ wstatus.e.id = 2

\* C12. fill() on a staging buffer that holds unconsumed bytes issues no
\* transport read, does not suspend, returns the buffer length and leaves
\* buffer and status as they were; a transport read is only ever in flight
\* with an empty buffer.
C12_FillBuffered ==
    /\ [][(Fill /\ IsSome(rbuffer) /\ ~IsEmpty(Unwrap(rbuffer)))
           => /\ rret' = RetOk("fill", BLen(Unwrap(rbuffer)), <<>>)
              /\ UNCHANGED <<rbuffer, rstatus, rio, ncalls, rfilled>>]_vars
    /\ [][(ncalls' # ncalls /\ rio' # rio) => REmpty]_vars
    /\ [](IsSome(rio) => IsEmpty(Unwrap(rio)))

\* fill() was called with 50 of 100 bytes still unread and returned 50
C12_Witness ==
    /\ rret = RetOk("fill", 50, <<>>)
    /\ rbuffer = Some(Bytes(50, 50))
    /\ ncalls = 1

\* C13. drain() on an empty staging buffer issues no transport write, does not
\* suspend, returns 0 and leaves buffer and status as they were; a pending
\* error stays pending.
C13_DrainEmpty ==
    [][(Drain /\ WSome /\ IsEmpty(Unwrap(wbuffer)))
        => /\ wret' = RetOk("drain", 0, <<>>)
           /\ UNCHANGED <<wbuffer, wstatus, wio, ncalls, wsent>>]_vars

\* drain() returned 0 on the empty buffer with an error still pending
C13_Witness ==
    /\ wret = RetOk("drain", 0, <<>>)
    /\ WSome
    /\ IsEmpty(Unwrap(wbuffer))
    /\ wstatus.tag = "Err"

\* C14. The write status has the read status's lifecycle: while no
\* synchronous call has consumed it, it is the outcome of the most recent
\* completed drain() that issued a transport write -- Err(E) if that drain()
\* failed with E, Ok if it succeeded (a failed drain() followed by a
\* successful one leaves Ok).
C14_WriteStatusIsLastDrain ==
    /\ (WSome /\ wret.op = "drain" /\ wret.tag = "Ok" /\ wret.n > 0)
         => wstatus = StOk
    /\ (WSome /\ wret.op = "drain" /\ wret.tag = "Err")
         => (wstatus.tag = "Err" /\ wstatus.e.kind = wret.e.kind)

\* C15. Buffered data comes before a pending status: read() on a non-empty
\* staging buffer returns data and neither looks at nor changes the status;
\* and (the transport adding no bytes when it reports zero bytes or an error)
\* a status other than Ok implies an empty staging buffer.
C15_DataBeforeStatus ==
    /\ [][(Read /\ IsSome(rbuffer) /\ ~IsEmpty(Unwrap(rbuffer)))
           => /\ rret'.op = "read" /\ rret'.tag = "Ok"
              /\ rret'.data = BTake(Unwrap(rbuffer), rret'.n)
              /\ UNCHANGED <<rstatus, rsurfaced>>]_vars
    /\ [](rstatus # StOk => IsEmpty(RStaged))

\* data was read out, then a fill() met the end of the stream
C15_Witness ==
    /\ rstatus = StEof
    /\ REmpty
    /\ rcopied = Bytes(0, 100)
    /\ rret = RetOk("fill", 0, <<>>)

\* the bytes write() accepted that no successful io.write_all has covered yet:
\* in the slot, or in the buffer a suspended do_io has lent to io.write_all
WStaged == IF IsSome(wbuffer) THEN Unwrap(wbuffer)
           ELSE IF IsSome(wio) THEN Unwrap(wio) ELSE <<>>

\* C16. Write-side FIFO: a drain() on a non-empty buffer hands the transport
\* exactly the unsent bytes, in order; when the transport call succeeds
\* drain() returns the number of bytes that were buffered and leaves the
\* buffer empty; so the bytes of the successful transport writes,
\* concatenated, followed by the bytes still staged, are exactly the bytes
\* write() accepted, in order (no suspended drain() having been dropped).
C16_WriteFifo ==
    /\ [][(ncalls' # ncalls /\ wio' # wio)
           => /\ ~IsEmpty(Unwrap(wbuffer))
              /\ wio' = wbuffer
              /\ wbuffer' = None]_vars
    /\ [][DrainOk => /\ wret' = RetOk("drain", BLen(Unwrap(wio)), <<>>)
                     /\ wbuffer' = Some(<<>>)
                     /\ wsent' = BCat(wsent, Unwrap(wio))]_vars
    /\ [](~wdropped => /\ BCat(wsent, WStaged) = waccepted
                       /\ IsPrefix(wsent, waccepted)
                       /\ IsEmpty(WStaged) => wsent = waccepted)
    /\ [](waccepted = Bytes(0, wtaken))

\* 20 KiB went through in two writes and two successful drains
C16_Witness ==
    /\ wsent = Bytes(0, 20 * 1024)
    /\ waccepted = Bytes(0, 20 * 1024)
    /\ wbuffer = Some(<<>>)
    /\ wret = RetOk("drain", 4096, <<>>)
    /\ nerrs = 0

\* C17. Dropping a suspended fill() or drain() leaves the adapter's buffer
\* slot empty for good, and every later read(), write(), flush(), fill() or
\* drain() on that adapter fails on the `expect` and changes nothing.
C17_Abandoned ==
    /\ [][/\ FillDrop => (rbuffer' = None /\ rio' = None)
          /\ DrainDrop => (wbuffer' = None /\ wio' = None)]_vars
    /\ [](/\ rdropped => (rbuffer = None /\ rio = None)
          /\ wdropped => (wbuffer = None /\ wio = None))
    /\ [][/\ (rdropped /\ (Read \/ Fill \/ rvars' # rvars))
               => /\ rret'.tag = "Panic"
                  /\ UNCHANGED <<rbuffer, rstatus, rio, rfilled, rcopied, rsurfaced>>
          /\ (wdropped /\ (Write \/ Flush \/ Drain \/ wvars' # wvars))
               => /\ wret'.tag = "Panic"
                  /\ UNCHANGED <<wbuffer, wstatus, wio, wtaken, wsurfaced,
                                 waccepted, wsent>>]_vars

\* both adapters had their suspended call dropped and a later call on each
\* failed
C17_Witness ==
    /\ rdropped /\ wdropped
    /\ rret = RetPanic("read")
    /\ wret = RetPanic("flush")

\* C18. A failed drain() changes only the status: when the transport write
\* fails with E the staging buffer holds exactly the bytes it held before the
\* drain(), the status becomes Err(E), flush() returns would-block once E has
\* been delivered, and the next drain() hands the transport the same bytes
\* again (followed by whatever write() added since).
C18_FailedDrain ==
    /\ [][(ncalls' # ncalls /\ wio' # wio) => wio' = wbuffer]_vars
    /\ [][\A k \in ErrKinds :
            DrainErr(k) => /\ wbuffer' = wio
                           /\ wstatus' = StErr(IoError(k, nerrs + 1))
                           /\ UNCHANGED <<wtaken, waccepted, wsent, wsurfaced>>]_vars
    /\ []((WSome /\ wret.op = "drain" /\ wret.tag = "Err")
            => /\ wbuffer = wfailed
               /\ ~IsEmpty(Unwrap(wbuffer))
               /\ wstatus.tag = "Err")
    /\ [][(Flush /\ WSome /\ wret.op \in {"write", "flush"} /\ wret.tag = "Err"
              /\ IsSome(wfailed))
           => wret' = RetErr("flush", WouldBlock)]_vars
    /\ [][(ncalls' # ncalls /\ wio' # wio /\ IsSome(wfailed))
           => IsPrefix(Unwrap(wfailed), Unwrap(wio'))]_vars

\* the drain() failed, flush() returned E and then would-block, and the next
\* drain() has handed the same bytes to the transport
C18_Witness ==
    /\ IsSome(wio)
    /\ wio = wfailed
    /\ wret = RetErr("flush", WouldBlock)
    /\ Len(wsurfaced) = 1
    /\ wsent = <<>>

\* read() called with a non-empty dest, write() called with a non-empty src
ReadSome == ReadEmpty \/ \E d \in DestLens \ {0} : ReadData(d)
WriteSome == WriteTakeErr("write") \/ WriteFull \/ \E n \in SrcLens \ {0} : WriteData(n)

\* C19, read side. The read() with a non-empty dest that follows a completed
\* fill() returns data, zero-length success or the transport's error; it
\* returns an error of kind would-block only if that is the transport's error.
C19_ReadAfterFill ==
    [][(ReadSome /\ rret.op = "fill" /\ rret.tag \in {"Ok", "Err"} /\ IsSome(rbuffer))
        => /\ rret' # RetErr("read", WouldBlock)
           /\ (rret.tag = "Ok" /\ rret.n > 0) => (rret'.tag = "Ok" /\ rret'.n > 0)
           /\ (rret.tag = "Ok" /\ rret.n = 0) => rret' = RetOk("read", 0, <<>>)
           /\ rret.tag = "Err" => (rret'.tag = "Err" /\ rret'.e.id > 0
                                   /\ rret'.e.kind = rret.e.kind)]_vars

\* C19, write side. The write() with a non-empty src that follows a drain()
\* that completed successfully on a full buffer accepts at least one byte.
C19_WriteAfterDrain ==
    [][(WriteSome /\ wret = RetOk("drain", BUFFER_SIZE, <<>>) /\ WSome)
        => (wret'.tag = "Ok" /\ wret'.n >= 1)]_vars

\* C19. Would-block does not last once the pump runs: both of the above.
C19_WouldBlockNotPermanent == C19_ReadAfterFill /\ C19_WriteAfterDrain

\* C20. A transport read issued by fill() that completes with n bytes sets the
\* status to Eof when n = 0 and to Ok when n > 0, fill() returns n, and n is
\* the length of the staging buffer right after the call.
C20_FillAgrees ==
    /\ [][\A n \in ReadLens \cup {0} :
            FillOk(n) => /\ rio = Some(<<>>)
                         /\ rstatus' = (IF n = 0 THEN StEof ELSE StOk)
                         /\ rret' = RetOk("fill", n, <<>>)
                         /\ IsSome(rbuffer') /\ BLen(Unwrap(rbuffer')) = n]_vars
    /\ [][(rfilled' # rfilled)
            => /\ rret' = RetOk("fill", BLen(rfilled') - BLen(rfilled), <<>>)
               /\ rstatus' = StOk
               /\ BLen(Unwrap(rbuffer')) = rret'.n]_vars
    /\ []((IsSome(rbuffer) /\ rret.op = "fill" /\ rret.tag = "Ok")
            => /\ BLen(Unwrap(rbuffer)) = rret.n
               /\ rret.n = 0 => rstatus = StEof)

\* a transport read of 100 bytes completed on the empty buffer
C20_Witness ==
    /\ rret = RetOk("fill", 100, <<>>)
    /\ rstatus = StOk
    /\ rfilled = Bytes(0, 100)
    /\ rbuffer = Some(Bytes(0, 100))

====
